---- MODULE Spec2Model ----
(***************************************************************************)
(* Model of the real-time chat hub: ChatConsumer (chat/consumers.py), the  *)
(* chat store it reads and writes (chat/models.py), and the REST handlers  *)
(* that touch the same rows (chat/views.py, authentication/views.py).      *)
(*                                                                         *)
(* One action per handler invocation.  A consumer runs its handlers one at *)
(* a time, so a handler is one step.  channel_layer.group_send only puts   *)
(* the event on the channel of every group member; the member's consumer   *)
(* runs the matching *_handler later, in a step of its own (Dispatch).     *)
(***************************************************************************)
EXTENDS Integers, Sequences, FiniteSets, TLC

\* ---------------------------------------------------------------- bounds
MaxSessions == 2      \* connections ever opened
MaxUsers == 2         \* registered users, ids 1..MaxUsers
MaxMsgs == 1          \* messages ever created (auto-increment ids)
MaxChan == 1          \* events waiting on the channel of a live consumer
MaxBurst == 2         \* both of them, where one session sends several frames
MaxTime == 1          \* clock ticks (seconds)
MaxConvs == 4         \* conversations ever created (auto-increment ids)
MaxTokens == 2        \* password-reset tokens ever issued

Sessions == 1..MaxSessions
Users == 1..MaxUsers
\* the conversations that exist at the start, and the one the websocket
\* scenarios connect to
Convs == {1, 2}
Rooms == {1}
\* conversation ids, the ones handed out later included
ConvIds == 1..MaxConvs
Time == 0..MaxTime

\* AnonymousUser: is_authenticated is False and id is None
Anon == 0
\* a nullable DateTimeField holding NULL
Null == -1
\* timedelta.seconds is the seconds component of days/seconds/microseconds
SecondsPerDay == 86400
\* TypingIndicator.is_active threshold
TypingTTL == 5
\* a password-reset token lives timedelta(hours=24), in seconds
TokenLife == 86400

\* ---------------------------------------------------------------- text
Space == " "
\* str.strip(): drop leading and trailing whitespace
RECURSIVE lstrip(_)
lstrip(str) ==
    IF str # <<>> /\ Head(str) = Space THEN lstrip(Tail(str)) ELSE str

RECURSIVE rstrip(_)
rstrip(str) ==
    IF str # <<>> /\ str[Len(str)] = Space
    THEN rstrip(SubSeq(str, 1, Len(str) - 1))
    ELSE str

\* a strip() that returns its argument
strip_none(str) == str

strip(str) == rstrip(lstrip(str))

\* the text bodies a client sends
Contents == { <<>>, <<" ">>, <<"h">>, <<" ", "h", " ">> }

\* ---------------------------------------------------------------- frames
\* An inbound text frame, by what json.loads and dict.get make of it.
\*   json:    "invalid" (JSONDecodeError), "scalar" (valid JSON, not an
\*            object: a list, number, string or null), "object"
\*   type:    data.get('type'); "none" when the key is missing
\*   ctag:    content is a string ("str"), missing ("missing") or some other
\*            JSON value ("other": a number, null, a list)
\*   is_typing: data.get('is_typing', False)
\*   mtag:    message_id is an integer ("int"), missing/null ("missing") or
\*            a non-numeric string ("other")
Frame(json, type, ctag, content, is_typing, mtag, message_id) ==
    [json |-> json, type |-> type, ctag |-> ctag, content |-> content,
     is_typing |-> is_typing, mtag |-> mtag, message_id |-> message_id]

ChatFrames ==
    { Frame("object", "chat_message", "str", c, FALSE, "missing", 0) : c \in Contents }
    \cup { Frame("object", "chat_message", t, <<>>, FALSE, "missing", 0) :
             t \in {"missing", "other"} }

TypingFrames ==
    { Frame("object", "typing", "missing", <<>>, b, "missing", 0) : b \in BOOLEAN }

ReadFrames ==
    { Frame("object", "read_receipt", "missing", <<>>, FALSE, "int", m) :
        m \in 0..MaxMsgs }
    \cup { Frame("object", "read_receipt", "missing", <<>>, FALSE, t, 0) :
             t \in {"missing", "other"} }

BadFrames ==
    { Frame("invalid", "none", "missing", <<>>, FALSE, "missing", 0),
      Frame("scalar", "none", "missing", <<>>, FALSE, "missing", 0),
      Frame("object", "none", "missing", <<>>, FALSE, "missing", 0),
      Frame("object", "ping", "missing", <<>>, FALSE, "missing", 0) }

\* frames of the wrong shape: malformed, not an object, no or unknown type,
\* a content that is not a string
ProtocolErrorFrames ==
    BadFrames \cup { f \in ChatFrames : f.ctag = "other" }

Frames == ChatFrames \cup TypingFrames \cup ReadFrames \cup BadFrames

\* ---------------------------------------------------------------- state
VARIABLES
    status,          \* session -> "idle" | "joined" | "rejected" | "closed" | "crashed"
    user,            \* session -> self.user (scope['user'])
    conv,            \* session -> self.conversation_id
    groups,          \* channel layer: conversation -> sessions in chat_<id>
    chan,            \* channel layer: session -> events waiting on its channel
    out,             \* session -> frames self.send() wrote in the last step
    is_online,       \* User.is_online
    conversations,   \* Conversation rows: id and updated_at
    participants,    \* ConversationParticipant rows
    messages,        \* Message rows
    nextId,          \* Message auto-increment
    read_status,     \* MessageReadStatus rows
    nextConv,        \* Conversation auto-increment
    typing,          \* TypingIndicator rows
    inflight,        \* calls into the store that have started and not returned
    limit,           \* the bounds of the run: messages created, channel length
    closing,         \* sessions whose socket has closed, disconnect() still to run
    tokens,          \* PasswordResetToken rows
    password,        \* User.password
    now,             \* timezone.now()
    last             \* the handler that ran in the last step, with its input

vars == <<status, user, conv, groups, chan, out, is_online, conversations,
          participants, messages, nextId, read_status, typing, now, last,
          nextConv, inflight, limit, closing, tokens, password>>

store == <<is_online, conversations, participants, messages, nextId,
           read_status, typing>>

\* ---------------------------------------------------------------- events
NoMessage == [id |-> 0, conversation |-> 0, sender |-> 0, content |-> <<>>,
              created_at |-> 0, is_read |-> FALSE]

\* A group event.  origin is not a field of the program's event: it records
\* the session whose handler called group_send, so that a property can name
\* the originator.
Event(type, user_id, st, is_typing, message, origin) ==
    [type |-> type, user_id |-> user_id, status |-> st,
     is_typing |-> is_typing, message |-> message, origin |-> origin]

NoEvent == Event("none", 0, "", FALSE, NoMessage, 0)

NoFrame == Frame("none", "none", "missing", <<>>, FALSE, "missing", 0)

\* A frame written to the client socket by self.send()
OutFrame(type, text, user_id, st, is_typing, message) ==
    [type |-> type, text |-> text, user_id |-> user_id, status |-> st,
     is_typing |-> is_typing, message |-> message]

ErrorFrame(text) == OutFrame("error", text, 0, "", FALSE, NoMessage)

NoOut == [s \in Sessions |-> <<>>]

\* self.send(...) by session s, nothing to the others
send(s, frame) == [NoOut EXCEPT ![s] = <<frame>>]

\* What the last step was: the handler, the session or the requesting user,
\* the conversation, and the inbound frame or the dispatched event
\* (cleared: the step deleted a typing indicator row)
\* (code: the HTTP status of a REST response, 0 for a websocket handler)
Last(op, s, u, c, frame, ev) ==
    [op |-> op, s |-> s, u |-> u, c |-> c, frame |-> frame, ev |-> ev,
     cleared |-> FALSE, code |-> 0]

\* ---------------------------------------------------------------- channel layer
\* Sessions whose consumer is running
Live == { s \in Sessions : status[s] = "joined" }

\* The model's bound on channel length: a broadcast to group c is taken only
\* while every live member has room for the event.
CanSend(c) == \A t \in groups[c] : status[t] = "joined" => Len(chan[t]) < limit.chan

\* a group_send that puts the event at the front of each channel
group_send_front(ch, g, ev) ==
    [t \in Sessions |->
        IF t \in g /\ Len(ch[t]) < limit.chan THEN <<ev>> \o ch[t] ELSE ch[t]]

\* channel_layer.group_send: put the event on the channel of every member of
\* the group g (a set of sessions); a channel at capacity drops the event
\* (this happens only to channels whose consumer has stopped, by CanSend).
group_send(ch, g, ev) ==
    [t \in Sessions |->
        IF t \in g /\ Len(ch[t]) < limit.chan THEN Append(ch[t], ev) ELSE ch[t]]

\* channel_layer.group_add / group_discard on the group of conversation c
group_add(gs, c, s) == [gs EXCEPT ![c] = @ \cup {s}]

group_discard(gs, c, s) == [gs EXCEPT ![c] = @ \ {s}]

\* ---------------------------------------------------------------- store
\* Conversation.objects.filter(id=c).exists()
conversation_exists(c) == \E k \in conversations : k.id = c

\* a conversation.save that writes nothing
touch_conversation_none(c) == conversations

\* conversation.save(update_fields=['updated_at']): auto_now stamps the row
touch_conversation(c) ==
    { IF k.id = c THEN [k EXCEPT !.updated_at = now] ELSE k : k \in conversations }

\* a membership check that lets everyone in
check_participant_anyone(u, c) == TRUE

\* ChatConsumer.check_participant
check_participant(u, c) ==
    \E p \in participants : p.conversation = c /\ p.user = u

\* ChatConsumer.update_online_status: UPDATE users SET is_online WHERE id = u
update_online_status(u, flag) ==
    [w \in Users |-> IF w = u THEN flag ELSE is_online[w]]

\* an add_typing_indicator that creates a row on every signal
add_typing_indicator_create(c, u) ==
    typing \cup { [conversation |-> c, user |-> u, started_at |-> now] }

\* ChatConsumer.add_typing_indicator: update_or_create re-stamps started_at
add_typing_indicator(c, u) ==
    { t \in typing : ~(t.conversation = c /\ t.user = u) }
    \cup { [conversation |-> c, user |-> u, started_at |-> now] }

\* a remove_typing_indicator whose filter matches no row
remove_typing_indicator_none(c, u) == typing

\* ChatConsumer.remove_typing_indicator
remove_typing_indicator(c, u) ==
    { t \in typing : ~(t.conversation = c /\ t.user = u) }

\* timedelta.seconds of a non-negative difference
timedelta_seconds(d) == d % SecondsPerDay

\* TypingIndicator.is_active
is_active(t) == timedelta_seconds(now - t.started_at) < TypingTTL

\* isActive(conversation, user): an entry exists and is active
IsActive(c, u) ==
    \E t \in typing : t.conversation = c /\ t.user = u /\ is_active(t)

\* The Message row save_message creates
NewMessage(c, u, content) ==
    [id |-> nextId, conversation |-> c, sender |-> u, type |-> "text",
     content |-> content, created_at |-> now, edited_at |-> Null,
     is_edited |-> FALSE]

\* ChatConsumer.serialize_message: MessageSerializer without a request in
\* its context, so is_read is False
serialize_message(m) ==
    [id |-> m.id, conversation |-> m.conversation, sender |-> m.sender,
     content |-> m.content, created_at |-> m.created_at, is_read |-> FALSE]

\* a mark_message_read that does not look the message up
mark_message_read_unchecked(u, mid) ==
    IF \E r \in read_status : r.message = mid /\ r.user = u
    THEN read_status
    ELSE read_status \cup { [message |-> mid, user |-> u, read_at |-> now] }

\* a mark_message_read that creates the row without looking for one
mark_message_read_create(u, mid) ==
    IF \E m \in messages : m.id = mid
    THEN read_status \cup { [message |-> mid, user |-> u, read_at |-> now] }
    ELSE read_status

\* ChatConsumer.mark_message_read: get_or_create on (message, user)
mark_message_read(u, mid) ==
    IF (\E m \in messages : m.id = mid)
       /\ ~(\E r \in read_status : r.message = mid /\ r.user = u)
    THEN read_status \cup { [message |-> mid, user |-> u, read_at |-> now] }
    ELSE read_status

\* ConversationParticipant.get_unread_count
get_unread_count(p) ==
    IF p.last_read_at # Null
    THEN Cardinality({ m \in messages : m.conversation = p.conversation
                         /\ m.created_at > p.last_read_at /\ m.sender # p.user })
    ELSE Cardinality({ m \in messages : m.conversation = p.conversation
                         /\ m.sender # p.user })

\* ---------------------------------------------------------------- initial state
\* Every user is registered and is a participant of every conversation (group
\* conversations named "g");
\* nobody is connected or logged in, nothing has been sent.
Boot ==
    /\ status = [s \in Sessions |-> "idle"]
    /\ user = [s \in Sessions |-> Anon]
    /\ conv = [s \in Sessions |-> 0]
    /\ groups = [c \in Convs |-> {}]
    /\ chan = [s \in Sessions |-> <<>>]
    /\ out = NoOut
    /\ is_online = [u \in Users |-> FALSE]
    /\ conversations = { [id |-> c, type |-> "group", name |-> "g",
                           updated_at |-> 0] : c \in Convs }
    /\ nextConv = Cardinality(Convs) + 1
    /\ inflight = {}
    /\ closing = {}
    /\ tokens = {}
    /\ password = [u \in Users |-> 0]
    /\ participants = { [conversation |-> c, user |-> u, last_read_at |-> Null] :
                          c \in Convs, u \in Users }
    /\ messages = {}
    /\ nextId = 1
    /\ read_status = {}
    /\ typing = {}
    /\ now = 0
    /\ last = Last("init", 0, 0, 0, NoFrame, NoEvent)

Init == Boot /\ limit = [msgs |-> MaxMsgs, chan |-> MaxChan]

\* the same start for the runs in which one session sends several frames
InitBurst == Boot /\ limit = [msgs |-> MaxBurst, chan |-> MaxBurst]

\* ---------------------------------------------------------------- users
\* User u has not appeared yet: no connection, no row and no step is about u.
\* Users that have not appeared are interchangeable, so the next one to
\* appear is taken to be the one with the smallest id.
Pristine(u) ==
    /\ ~is_online[u]
    /\ \A s \in Sessions : user[s] # u
    /\ \A k \in conversations :
         [conversation |-> k.id, user |-> u, last_read_at |-> Null] \in participants
    /\ \A m \in messages : m.sender # u
    /\ \A r \in read_status : r.user # u
    /\ \A t \in typing : t.user # u
    /\ last.u # u

MayAct(u) ==
    IF u = Anon THEN TRUE
    ELSE IF Pristine(u) THEN \A v \in Users : Pristine(v) => u <= v
    ELSE TRUE

\* ---------------------------------------------------------------- consumer
\* Session s is inside a handler (its get_or_create has not returned): a
\* consumer runs one handler at a time
Busy(s) == \E i \in inflight : i.s = s

\* Connections are numbered in the order they are opened.
NextToOpen(s) == status[s] = "idle" /\ \A t \in Sessions : t < s => status[t] # "idle"

\* ChatConsumer.connect, refused: the user is anonymous or not a participant.
\* close() before accept(); the server then delivers websocket.disconnect.
ConnectRefused(s, u, c) ==
    /\ UNCHANGED <<nextConv, inflight, limit, closing, tokens, password>>
    /\ NextToOpen(s) /\ MayAct(u)
    /\ u = Anon \/ ~check_participant(u, c)
    /\ status' = [status EXCEPT ![s] = "rejected"]
    /\ user' = [user EXCEPT ![s] = u]
    /\ conv' = [conv EXCEPT ![s] = c]
    /\ out' = NoOut
    /\ last' = Last("connect", s, u, c, NoFrame, NoEvent)
    /\ UNCHANGED <<groups, chan, now>>
    /\ UNCHANGED store

\* ChatConsumer.connect, accepted: group_add, accept, update_online_status(True),
\* group_send user_status online (the new member's own channel included).
ConnectAccepted(s, u, c) ==
    /\ UNCHANGED <<nextConv, inflight, limit, closing, tokens, password>>
    /\ NextToOpen(s) /\ MayAct(u)
    /\ u # Anon /\ check_participant(u, c)
    /\ CanSend(c)
    /\ status' = [status EXCEPT ![s] = "joined"]
    /\ user' = [user EXCEPT ![s] = u]
    /\ conv' = [conv EXCEPT ![s] = c]
    /\ groups' = group_add(groups, c, s)
    /\ is_online' = update_online_status(u, TRUE)
    /\ chan' = group_send(chan, groups'[c],
                          Event("user_status", u, "online", FALSE, NoMessage, s))
    /\ out' = NoOut
    /\ last' = Last("connect", s, u, c, NoFrame, NoEvent)
    /\ UNCHANGED <<conversations, participants, messages, nextId, read_status,
                   typing, now>>

connect(s, u, c) == ConnectRefused(s, u, c) \/ ConnectAccepted(s, u, c)

\* ChatConsumer.disconnect for an anonymous scope user: update_online_status
\* filters on id=None and matches no row; remove_typing_indicator then filters
\* on user=AnonymousUser, which the ORM rejects with TypeError, so the handler
\* ends there.
DisconnectAnonymous(s) ==
    /\ UNCHANGED <<nextConv, inflight, limit, closing, tokens, password>>
    /\ status[s] = "rejected"
    /\ user[s] = Anon
    /\ status' = [status EXCEPT ![s] = "closed"]
    /\ out' = NoOut
    /\ last' = Last("disconnect", s, user[s], conv[s], NoFrame, NoEvent)
    /\ UNCHANGED <<user, conv, groups, chan, now>>
    /\ UNCHANGED store

\* ChatConsumer.disconnect: update_online_status(False), remove_typing_indicator,
\* group_send user_status offline, group_discard.  It runs whenever the server
\* delivers websocket.disconnect: after a joined session's socket closes and
\* after connect() refused the connection.
DisconnectUser(s) ==
    /\ UNCHANGED <<nextConv, inflight, limit, closing, tokens, password>>
    /\ status[s] \in {"joined", "rejected"} /\ ~Busy(s)
    /\ user[s] # Anon
    /\ CanSend(conv[s])
    /\ is_online' = update_online_status(user[s], FALSE)
    /\ typing' = remove_typing_indicator(conv[s], user[s])
    /\ chan' = group_send(chan, groups[conv[s]],
                          Event("user_status", user[s], "offline", FALSE, NoMessage, s))
    /\ groups' = group_discard(groups, conv[s], s)
    /\ status' = [status EXCEPT ![s] = "closed"]
    /\ out' = NoOut
    /\ last' = [Last("disconnect", s, user[s], conv[s], NoFrame, NoEvent)
                  EXCEPT !.cleared = (typing' # typing)]
    /\ UNCHANGED <<user, conv, conversations, participants, messages, nextId,
                   read_status, now>>

disconnect(s) == DisconnectAnonymous(s) \/ DisconnectUser(s)

\* An exception no handler catches leaves receive(): the consumer's task ends
\* with it, the server closes the socket, and no websocket.disconnect is
\* dispatched to the consumer, so disconnect() never runs for this session.
Crash(s, f) ==
    /\ status' = [status EXCEPT ![s] = "crashed"]
    /\ out' = NoOut
    /\ last' = Last("receive", s, user[s], conv[s], f, NoEvent)
    /\ UNCHANGED <<user, conv, groups, chan, now>>
    /\ UNCHANGED store

\* receive(): json.loads raises JSONDecodeError -> error frame 'Invalid JSON'
ReceiveInvalidJson(s, f) ==
    /\ f.json = "invalid"
    /\ out' = send(s, ErrorFrame("Invalid JSON"))
    /\ last' = Last("receive", s, user[s], conv[s], f, NoEvent)
    /\ UNCHANGED <<status, user, conv, groups, chan, now>>
    /\ UNCHANGED store

\* receive(): valid JSON that is not an object: data.get raises AttributeError
ReceiveNonObject(s, f) ==
    /\ f.json = "scalar"
    /\ Crash(s, f)

\* receive(): the else branch -> error frame 'Unknown message type'
ReceiveUnknownType(s, f) ==
    /\ f.json = "object"
    /\ f.type \notin {"chat_message", "typing", "read_receipt"}
    /\ out' = send(s, ErrorFrame("Unknown message type"))
    /\ last' = Last("receive", s, user[s], conv[s], f, NoEvent)
    /\ UNCHANGED <<status, user, conv, groups, chan, now>>
    /\ UNCHANGED store

\* ChatConsumer.save_message succeeds: the conversation row exists
SaveMessageOk(s) == conversation_exists(conv[s])

\* ChatConsumer.handle_chat_message
handle_chat_message(s, f) ==
    /\ f.json = "object" /\ f.type = "chat_message"
    /\ IF f.ctag = "other"
       THEN \* data.get('content', '') is not a string: .strip() raises
            Crash(s, f)
       ELSE LET content == IF f.ctag = "missing" THEN <<>> ELSE strip(f.content)
                message == NewMessage(conv[s], user[s], content)
            IN
            IF content = <<>> \/ ~SaveMessageOk(s)
            THEN \* blank content returns; save_message returned None
                 /\ out' = NoOut
                 /\ last' = Last("receive", s, user[s], conv[s], f, NoEvent)
                 /\ UNCHANGED <<status, user, conv, groups, chan, now>>
                 /\ UNCHANGED store
            ELSE /\ nextId <= limit.msgs
                 /\ CanSend(conv[s])
                 /\ messages' = messages \cup {message}
                 /\ nextId' = nextId + 1
                 /\ conversations' = touch_conversation(conv[s])
                 /\ chan' = group_send(chan, groups[conv[s]],
                                Event("chat_message_handler", user[s], "", FALSE,
                                      serialize_message(message), s))
                 /\ out' = NoOut
                 /\ last' = Last("receive", s, user[s], conv[s], f, NoEvent)
                 /\ UNCHANGED <<status, user, conv, groups, is_online,
                                participants, read_status, typing, now>>

\* ChatConsumer.handle_typing
handle_typing(s, f) ==
    /\ f.json = "object" /\ f.type = "typing"
    /\ IF f.is_typing /\ ~conversation_exists(conv[s])
       THEN \* update_or_create inserts a row whose conversation is gone:
            \* IntegrityError
            Crash(s, f)
       ELSE /\ CanSend(conv[s])
            /\ typing' = IF f.is_typing
                         THEN add_typing_indicator(conv[s], user[s])
                         ELSE remove_typing_indicator(conv[s], user[s])
            /\ chan' = group_send(chan, groups[conv[s]],
                           Event("typing_indicator_handler", user[s], "",
                                 f.is_typing, NoMessage, s))
            /\ out' = NoOut
            /\ last' = Last("receive", s, user[s], conv[s], f, NoEvent)
            /\ UNCHANGED <<status, user, conv, groups, is_online, conversations,
                           participants, messages, nextId, read_status, now>>

\* ChatConsumer.handle_read_receipt
handle_read_receipt(s, f) ==
    /\ f.json = "object" /\ f.type = "read_receipt"
    /\ IF f.mtag = "other"
       THEN \* Message.objects.get(id='abc') raises ValueError
            Crash(s, f)
       ELSE /\ read_status' = IF f.mtag = "int" /\ f.message_id # 0
                              THEN mark_message_read(user[s], f.message_id)
                              ELSE read_status
            /\ out' = NoOut
            /\ last' = Last("receive", s, user[s], conv[s], f, NoEvent)
            /\ UNCHANGED <<status, user, conv, groups, chan, is_online,
                           conversations, participants, messages, nextId,
                           typing, now>>

\* ChatConsumer.receive
receive(s, f) ==
    /\ status[s] = "joined" /\ ~Busy(s) /\ s \notin closing
    /\ UNCHANGED <<nextConv, inflight, limit, closing, tokens, password>>
    /\ CASE f.json = "invalid" -> ReceiveInvalidJson(s, f)
         [] f.json = "scalar" -> ReceiveNonObject(s, f)
         [] f.json = "object" /\ f.type = "chat_message" -> handle_chat_message(s, f)
         [] f.json = "object" /\ f.type = "typing" -> handle_typing(s, f)
         [] f.json = "object" /\ f.type = "read_receipt" -> handle_read_receipt(s, f)
         [] OTHER -> ReceiveUnknownType(s, f)

\* a chat_message_handler with the typing handler's "not to the sender" filter
chat_message_handler_not_sender(s, ev) ==
    IF ev.user_id # user[s]
    THEN send(s, OutFrame("chat_message", "", 0, "", FALSE, ev.message))
    ELSE NoOut

\* ChatConsumer.chat_message_handler
chat_message_handler(s, ev) ==
    send(s, OutFrame("chat_message", "", 0, "", FALSE, ev.message))

\* a typing_indicator_handler without the user_id filter
typing_indicator_handler_unfiltered(s, ev) ==
    send(s, OutFrame("typing", "", ev.user_id, "", ev.is_typing, NoMessage))

\* ChatConsumer.typing_indicator_handler
typing_indicator_handler(s, ev) ==
    IF ev.user_id # user[s]
    THEN send(s, OutFrame("typing", "", ev.user_id, "", ev.is_typing, NoMessage))
    ELSE NoOut

\* ChatConsumer.user_status
user_status(s, ev) ==
    send(s, OutFrame("user_status", "", ev.user_id, ev.status, FALSE, NoMessage))

\* A running consumer takes the next event off its channel and runs the
\* handler the event's type names (nothing is written to a socket that has
\* closed).
Dispatch(s) ==
    /\ UNCHANGED <<nextConv, inflight, limit, closing, tokens, password>>
    /\ status[s] = "joined" /\ ~Busy(s) /\ s \notin closing
    /\ chan[s] # <<>>
    /\ LET ev == Head(chan[s]) IN
        /\ out' = CASE ev.type = "chat_message_handler" -> chat_message_handler(s, ev)
                    [] ev.type = "typing_indicator_handler" -> typing_indicator_handler(s, ev)
                    [] OTHER -> user_status(s, ev)
        /\ last' = Last("dispatch", s, user[s], conv[s], NoFrame, ev)
    /\ chan' = [chan EXCEPT ![s] = Tail(@)]
    /\ UNCHANGED <<status, user, conv, groups, now>>
    /\ UNCHANGED store

\* ---------------------------------------------------------------- hang-up
\* A handler awaits each database call (database_sync_to_async runs it in a
\* worker thread); the consumer takes no other frame or event until the
\* handler returns, but the client may close the socket and other consumers
\* run meanwhile.  websocket.disconnect then waits behind the handler.

\* The client of session s closes the socket
Hangup(s) ==
    /\ status[s] = "joined" /\ s \notin closing
    /\ closing' = closing \cup {s}
    /\ out' = NoOut
    /\ last' = Last("hangup", s, user[s], conv[s], NoFrame, NoEvent)
    /\ UNCHANGED <<status, user, conv, groups, chan, now, nextConv, inflight,
                   limit, tokens, password>>
    /\ UNCHANGED store

\* ChatConsumer.handle_chat_message up to the call of save_message: the
\* content is a string and is not blank after strip()
chat_begin(s, f) ==
    /\ status[s] = "joined" /\ ~Busy(s) /\ s \notin closing
    /\ f.json = "object" /\ f.type = "chat_message" /\ f.ctag = "str"
    /\ strip(f.content) # <<>>
    /\ inflight' = inflight \cup
         { [op |-> "chat", s |-> s, user |-> user[s], message |-> 0,
            data |-> [NoMessage EXCEPT !.content = strip(f.content)]] }
    /\ out' = NoOut
    /\ last' = Last("receive", s, user[s], conv[s], f, NoEvent)
    /\ UNCHANGED <<status, user, conv, groups, chan, now, nextConv, limit,
                   closing, tokens, password>>
    /\ UNCHANGED store

\* ChatConsumer.save_message returns: the message is stored and the
\* conversation stamped, or the conversation is gone and the handler ends
save_message(i) ==
    /\ i \in inflight /\ i.op = "chat"
    /\ LET message == NewMessage(conv[i.s], i.user, i.data.content) IN
        IF conversation_exists(conv[i.s])
        THEN /\ nextId <= limit.msgs
             /\ messages' = messages \cup {message}
             /\ nextId' = nextId + 1
             /\ conversations' = touch_conversation(conv[i.s])
             /\ inflight' = (inflight \ {i}) \cup
                  { [i EXCEPT !.op = "send", !.message = message.id,
                              !.data = serialize_message(message)] }
        ELSE /\ inflight' = inflight \ {i}
             /\ UNCHANGED <<messages, nextId, conversations>>
    /\ out' = NoOut
    /\ last' = Last("save", i.s, i.user, conv[i.s],
                     Frame("object", "chat_message", "str", i.data.content, FALSE,
                           "int", IF conversation_exists(conv[i.s]) THEN nextId ELSE 0),
                     NoEvent)
    /\ UNCHANGED <<status, user, conv, groups, chan, is_online, participants,
                   read_status, typing, now, nextConv, limit, closing, tokens,
                   password>>

\* a broadcast that a handler skips once its socket has closed
conversation_group_if_open(s) == IF s \in closing THEN {} ELSE groups[conv[s]]

\* the channels in self.conversation_group_name
conversation_group(s) == groups[conv[s]]

\* ChatConsumer.handle_chat_message from the return of save_message on:
\* serialize_message and group_send
chat_group_send(i) ==
    /\ i \in inflight /\ i.op = "send"
    /\ CanSend(conv[i.s])
    /\ inflight' = inflight \ {i}
    /\ chan' = group_send(chan, conversation_group(i.s),
                          Event("chat_message_handler", i.user, "", FALSE, i.data, i.s))
    /\ out' = NoOut
    /\ last' = Last("group_send", i.s, i.user, conv[i.s],
                     Frame("object", "chat_message", "str", i.data.content, FALSE,
                           "int", i.message),
                     NoEvent)
    /\ UNCHANGED <<status, user, conv, groups, now, nextConv, limit, closing,
                   tokens, password>>
    /\ UNCHANGED store

\* ChatConsumer.handle_typing up to the SELECT of update_or_create, which
\* finds no row for (self.conversation_id, self.user)
typing_select(s, f) ==
    /\ status[s] = "joined" /\ ~Busy(s) /\ s \notin closing
    /\ f.json = "object" /\ f.type = "typing" /\ f.is_typing
    /\ ~(\E t \in typing : t.conversation = conv[s] /\ t.user = user[s])
    /\ inflight' = inflight \cup
         { [op |-> "typing", s |-> s, user |-> user[s], message |-> 0] }
    /\ out' = NoOut
    /\ last' = Last("typing_select", s, user[s], conv[s], f, NoEvent)
    /\ UNCHANGED <<status, user, conv, groups, chan, now, nextConv, limit,
                   closing, tokens, password>>
    /\ UNCHANGED store

\* The INSERT of an in-flight update_or_create and the rest of handle_typing.
\* The row is there by now: unique_together raises IntegrityError,
\* get_or_create returns the row that is there and update_or_create saves it
\* (auto_now re-stamps started_at).  The conversation is gone: the foreign key
\* raises IntegrityError and the error leaves the handler.
typing_insert(i) ==
    /\ i \in inflight /\ i.op = "typing"
    /\ inflight' = inflight \ {i}
    /\ LET c == conv[i.s]
           there == \E t \in typing : t.conversation = c /\ t.user = i.user
           f == Frame("object", "typing", "missing", <<>>, TRUE, "missing", 0)
       IN
        IF ~conversation_exists(c)
        THEN /\ status' = [status EXCEPT ![i.s] = "crashed"]
             /\ last' = Last("typing_insert", i.s, i.user, c, f, NoEvent)
             /\ UNCHANGED <<typing, chan>>
        ELSE /\ CanSend(c)
             /\ typing' = add_typing_indicator(c, i.user)
             /\ chan' = group_send(chan, groups[c],
                            Event("typing_indicator_handler", i.user, "", TRUE,
                                  NoMessage, i.s))
             /\ last' = Last(IF there THEN "typing_update" ELSE "typing_insert",
                              i.s, i.user, c, f, NoEvent)
             /\ UNCHANGED status
    /\ out' = NoOut
    /\ UNCHANGED <<user, conv, groups, is_online, conversations, participants,
                   messages, nextId, read_status, now, nextConv, limit, closing,
                   tokens, password>>

\* ---------------------------------------------------------------- REST
\* UserLoginView.post with valid credentials
Login(u) ==
    /\ UNCHANGED <<nextConv, inflight, limit, closing, tokens, password>>
    /\ MayAct(u)
    /\ is_online' = [is_online EXCEPT ![u] = TRUE]
    /\ out' = NoOut
    /\ last' = Last("login", 0, u, 0, NoFrame, NoEvent)
    /\ UNCHANGED <<status, user, conv, groups, chan, conversations, participants,
                   messages, nextId, read_status, typing, now>>

\* UserLogoutView.post (no refresh token, or a valid one)
Logout(u) ==
    /\ UNCHANGED <<nextConv, inflight, limit, closing, tokens, password>>
    /\ MayAct(u)
    /\ is_online' = [is_online EXCEPT ![u] = FALSE]
    /\ out' = NoOut
    /\ last' = Last("logout", 0, u, 0, NoFrame, NoEvent)
    /\ UNCHANGED <<status, user, conv, groups, chan, conversations, participants,
                   messages, nextId, read_status, typing, now>>

\* ConversationDeleteView.delete: the participant row goes; the conversation
\* goes with its messages, read statuses and typing indicators (CASCADE) when
\* no participant is left.
Leave(u, c) ==
    /\ UNCHANGED <<nextConv, inflight, limit, closing, tokens, password>>
    /\ MayAct(u)
    /\ conversation_exists(c) /\ check_participant(u, c)
    /\ LET rest == { p \in participants : ~(p.conversation = c /\ p.user = u) }
           gone == ~(\E p \in rest : p.conversation = c)
           dead == { m.id : m \in { x \in messages : x.conversation = c } }
       IN
        /\ participants' = rest
        /\ conversations' = IF gone THEN { k \in conversations : k.id # c }
                            ELSE conversations
        /\ messages' = IF gone THEN { m \in messages : m.conversation # c }
                       ELSE messages
        /\ read_status' = IF gone THEN { r \in read_status : r.message \notin dead }
                          ELSE read_status
        /\ typing' = IF gone THEN { t \in typing : t.conversation # c } ELSE typing
    /\ out' = NoOut
    /\ last' = Last("leave", 0, u, c, NoFrame, NoEvent)
    /\ UNCHANGED <<status, user, conv, groups, chan, is_online, nextId, now>>

\* the user ids a participant_ids list names
Range(ids) == { ids[k] : k \in 1..Len(ids) }

\* the participant_ids lists a client posts (min_length=1)
IdLists == { <<a>> : a \in Users } \cup { <<a, b>> : a \in Users, b \in Users }

\* the names a client posts
Names == { "", "g" }

\* ConversationCreateSerializer.validate
validate(type, name, ids) ==
    /\ type = "private" => Len(ids) = 1
    /\ type = "group" => (Len(ids) >= 1 /\ name # "")
    /\ Cardinality(Range(ids) \cap Users) = Len(ids)

\* ConversationCreateSerializer.create: a private conversation of the requester
\* and participant_ids[0] is there already
existing_conv(u, type, ids) ==
    /\ type = "private"
    /\ \E k \in conversations :
         /\ k.type = "private"
         /\ check_participant(u, k.id) /\ check_participant(ids[1], k.id)

\* ConversationCreateView.post.  create() inserts the conversation, the
\* requester's participant row, then one row per user named; a list that names
\* the requester hits unique_together (IntegrityError, answer 500).  atomic: the
\* request runs in a transaction (settings.ATOMIC_REQUESTS) and the inserts are
\* rolled back; otherwise the rows inserted before the error stay (added: the
\* users that came before the requester in the queryset).
CreateConversation(u, type, name, ids, atomic, added) ==
    /\ UNCHANGED <<inflight, limit, closing, tokens, password>>
    /\ MayAct(u)
    /\ added \subseteq Range(ids) \ {u}
    /\ LET valid == validate(type, name, ids)
           found == valid /\ existing_conv(u, type, ids)
           clash == u \in Range(ids)
           make == valid /\ ~found
           keep == make /\ ~(clash /\ atomic)
           members == IF clash THEN {u} \cup added ELSE {u} \cup Range(ids)
       IN
        /\ make => nextConv <= MaxConvs
        /\ ~(make /\ clash) => (atomic /\ added = {})
        /\ conversations' =
             IF keep
             THEN conversations \cup { [id |-> nextConv, type |-> type,
                                         name |-> name, updated_at |-> now] }
             ELSE conversations
        /\ participants' =
             IF keep
             THEN participants \cup
                    { [conversation |-> nextConv, user |-> w, last_read_at |-> Null] :
                        w \in members }
             ELSE participants
        /\ nextConv' = IF keep THEN nextConv + 1 ELSE nextConv
        /\ last' = [Last("create_conversation", 0, u, IF keep THEN nextConv ELSE 0,
                          NoFrame, NoEvent)
                      EXCEPT !.code = IF ~valid THEN 400
                                      ELSE IF make /\ clash THEN 500 ELSE 201]
    /\ out' = NoOut
    /\ UNCHANGED <<status, user, conv, groups, chan, is_online, messages, nextId,
                   read_status, typing, now>>

\* the private conversations users u and w are both participants of
shared_private(u, w) ==
    { k \in conversations :
        /\ k.type = "private"
        /\ check_participant(u, k.id) /\ check_participant(w, k.id) }

\* ConversationCreateView.post for a private conversation with another user,
\* up to the lookup in ConversationCreateSerializer.create.  A conversation is
\* found: it is returned (k: the one first() picks).  None is found: the
\* inserts are still to come.
private_create_select(u, w, k) ==
    /\ MayAct(u) /\ w # u
    /\ validate("private", "", <<w>>)
    /\ ~(\E i \in inflight : i.op = "create" /\ i.user = u)
    /\ IF shared_private(u, w) # {}
       THEN /\ k \in shared_private(u, w)
            /\ UNCHANGED inflight
            /\ last' = [Last("create_private", 0, u, k.id,
                              Frame("object", "none", "missing", <<>>, FALSE, "int", w),
                              NoEvent) EXCEPT !.code = 201]
       ELSE /\ k = CHOOSE x \in conversations : TRUE
            /\ inflight' = inflight \cup
                 { [op |-> "create", s |-> 0, user |-> u, message |-> w] }
            /\ last' = Last("create_select", 0, u, 0,
                             Frame("object", "none", "missing", <<>>, FALSE, "int", w),
                             NoEvent)
    /\ out' = NoOut
    /\ UNCHANGED <<status, user, conv, groups, chan, now, nextConv, limit,
                   closing, tokens, password>>
    /\ UNCHANGED store

\* The inserts of a private create whose lookup found nothing: the
\* conversation, the requester's participant row and the other user's
private_create_insert(i) ==
    /\ i \in inflight /\ i.op = "create"
    /\ nextConv <= MaxConvs
    /\ inflight' = inflight \ {i}
    /\ conversations' = conversations \cup
         { [id |-> nextConv, type |-> "private", name |-> "", updated_at |-> now] }
    /\ participants' = participants \cup
         { [conversation |-> nextConv, user |-> w, last_read_at |-> Null] :
             w \in {i.user, i.message} }
    /\ nextConv' = nextConv + 1
    /\ last' = [Last("create_private", 0, i.user, nextConv,
                      Frame("object", "none", "missing", <<>>, FALSE, "int", i.message),
                      NoEvent) EXCEPT !.code = 201]
    /\ out' = NoOut
    /\ UNCHANGED <<status, user, conv, groups, chan, is_online, messages, nextId,
                   read_status, typing, now, limit, closing, tokens, password>>

\* MessageCreateView.post: MessageCreateSerializer checks that the
\* conversation exists and the requester is a participant, its CharField
\* trims the content and rejects a blank one; create() stores the message and
\* stamps the conversation.  Nothing is broadcast.
CreateMessage(u, c, kind, content) ==
    /\ UNCHANGED <<nextConv, inflight, limit, closing, tokens, password>>
    /\ MayAct(u)
    /\ LET body == strip(content)
           valid == conversation_exists(c) /\ check_participant(u, c) /\ body # <<>>
       IN
        /\ valid => nextId <= limit.msgs
        /\ messages' = IF valid
                        THEN messages \cup { [NewMessage(c, u, body) EXCEPT !.type = kind] }
                        ELSE messages
        /\ nextId' = IF valid THEN nextId + 1 ELSE nextId
        /\ conversations' = IF valid THEN touch_conversation(c) ELSE conversations
        /\ last' = [Last("create_message", 0, u, c,
                          Frame("object", "none", "str", content, FALSE, "missing", 0),
                          NoEvent)
                      EXCEPT !.code = IF valid THEN 201 ELSE 400]
    /\ out' = NoOut
    /\ UNCHANGED <<status, user, conv, groups, chan, is_online, participants,
                   read_status, typing, now>>

\* a lookup by id alone
owned_message_any_sender(u, mid) == { m \in messages : m.id = mid }

\* Message.objects.get(id=message_id, sender=request.user): the rows it finds
\* (none: Message.DoesNotExist, answered 404)
owned_message(u, mid) == { m \in messages : m.id = mid /\ m.sender = u }

\* Message.mark_as_edited: save(update_fields=['is_edited', 'edited_at'])
\* writes these two columns and no other
mark_as_edited(m) == [m EXCEPT !.is_edited = TRUE, !.edited_at = now]

\* MessageUpdateView.put: message.content = content changes the object in
\* memory; the only save is the one in mark_as_edited
UpdateMessage(u, mid, content) ==
    /\ UNCHANGED <<nextConv, inflight, limit, closing, tokens, password>>
    /\ MayAct(u)
    /\ LET found == owned_message(u, mid)
           ok == found # {} /\ content # <<>>
       IN
        /\ messages' = IF ok
                        THEN (messages \ found) \cup { mark_as_edited(m) : m \in found }
                        ELSE messages
        /\ last' = [Last("update", 0, u, 0,
                          Frame("object", "none", "str", content, FALSE, "int", mid),
                          NoEvent)
                      EXCEPT !.code = IF found = {} THEN 404
                                      ELSE IF content = <<>> THEN 400 ELSE 200]
    /\ out' = NoOut
    /\ UNCHANGED <<status, user, conv, groups, chan, is_online, conversations,
                   participants, nextId, read_status, typing, now>>

\* MessageDeleteView.delete: the message goes, its read statuses with it
\* (CASCADE)
DeleteMessage(u, mid) ==
    /\ UNCHANGED <<nextConv, inflight, limit, closing, tokens, password>>
    /\ MayAct(u)
    /\ LET found == owned_message(u, mid) IN
        /\ messages' = messages \ found
        /\ read_status' = IF found = {} THEN read_status
                           ELSE { r \in read_status : r.message # mid }
        /\ last' = [Last("delete", 0, u, 0,
                          Frame("object", "none", "missing", <<>>, FALSE, "int", mid),
                          NoEvent)
                      EXCEPT !.code = IF found = {} THEN 404 ELSE 200]
    /\ out' = NoOut
    /\ UNCHANGED <<status, user, conv, groups, chan, is_online, conversations,
                   participants, nextId, typing, now>>

\* an unread_messages query without the exclude(sender=request.user)
unread_messages_any_sender(u, c) ==
    { x \in messages : x.conversation = c
        /\ ~(\E r \in read_status : r.message = x.id /\ r.user = u) }

\* MessageMarkReadView.post: conversation.messages.exclude(sender=request.user)
\* .exclude(read_status__user=request.user)
unread_messages(u, c) ==
    { x \in messages : x.conversation = c /\ x.sender # u
        /\ ~(\E r \in read_status : r.message = x.id /\ r.user = u) }

\* participant.last_read_at = timezone.now(); participant.save(...)
set_last_read_at(u, c) ==
    { IF p.conversation = c /\ p.user = u
      THEN [p EXCEPT !.last_read_at = now] ELSE p : p \in participants }

\* MessageMarkReadView.post
MarkRead(u, c) ==
    /\ UNCHANGED <<nextConv, inflight, limit, closing, tokens, password>>
    /\ MayAct(u)
    /\ conversation_exists(c) /\ check_participant(u, c)
    /\ participants' = set_last_read_at(u, c)
    /\ read_status' = read_status \cup
         { [message |-> m.id, user |-> u, read_at |-> now] :
             m \in unread_messages(u, c) }
    /\ out' = NoOut
    /\ last' = [Last("mark_read", 0, u, c, NoFrame, NoEvent) EXCEPT !.code = 200]
    /\ UNCHANGED <<status, user, conv, groups, chan, is_online, conversations,
                   messages, nextId, typing, now>>

\* d seconds pass: short silences in the first seconds, then one long one
\* (the clock stops a little after one day)
Elapse(d) ==
    /\ UNCHANGED <<nextConv, inflight, limit, closing, tokens, password>>
    /\ now + d <= (IF d <= TypingTTL THEN TypingTTL ELSE SecondsPerDay + TypingTTL)
    /\ now' = now + d
    /\ out' = NoOut
    /\ last' = Last("elapse", 0, 0, 0, NoFrame, NoEvent)
    /\ UNCHANGED <<status, user, conv, groups, chan>>
    /\ UNCHANGED store

\* ---------------------------------------------------------------- password reset
\* the passwords a client asks for (0 is the one set at registration)
Passwords == {1, 2}

\* the tokens a confirm request names: the ones issued and one that never is
TokenIds == 0..MaxTokens

\* PasswordResetToken.is_valid
is_valid(t) == ~t.is_used /\ now < t.expires_at

\* PasswordResetRequestView.post with the email of user u:
\* PasswordResetRequestSerializer.save stores a fresh token
RequestReset(u) ==
    /\ Cardinality(tokens) < MaxTokens
    /\ tokens' = tokens \cup
         { [token |-> Cardinality(tokens) + 1, user |-> u,
            expires_at |-> now + TokenLife, is_used |-> FALSE] }
    /\ out' = NoOut
    /\ last' = [Last("reset_request", 0, u, 0, NoFrame, NoEvent) EXCEPT !.code = 200]
    /\ UNCHANGED <<status, user, conv, groups, chan, now, nextConv, inflight,
                   limit, closing, password>>
    /\ UNCHANGED store

\* PasswordResetConfirmView.post up to the end of is_valid():
\* PasswordResetConfirmSerializer.validate fetches the token and rejects the
\* request (400) when there is none or is_valid() is false; otherwise save()
\* is still to come
confirm_validate(tok, pw) ==
    /\ LET found == { t \in tokens : t.token = tok }
           ok == \E t \in found : is_valid(t)
       IN
        /\ inflight' = IF ok
                        THEN inflight \cup
                               { [op |-> "confirm", s |-> 0, user |-> t.user,
                                  message |-> tok, password |-> pw] : t \in found }
                        ELSE inflight
        /\ last' = [Last("confirm_validate", 0, 0, 0,
                          Frame("object", "none", "missing", <<>>, FALSE, "int", tok),
                          NoEvent) EXCEPT !.code = IF ok THEN 0 ELSE 400]
    /\ out' = NoOut
    /\ UNCHANGED <<status, user, conv, groups, chan, now, nextConv, limit,
                   closing, tokens, password>>
    /\ UNCHANGED store

\* PasswordResetConfirmSerializer.save: user.set_password, user.save(),
\* token_obj.is_used = True, token_obj.save()
confirm_save(i) ==
    /\ i \in inflight /\ i.op = "confirm"
    /\ inflight' = inflight \ {i}
    /\ password' = [password EXCEPT ![i.user] = i.password]
    /\ tokens' = { IF t.token = i.message THEN [t EXCEPT !.is_used = TRUE] ELSE t :
                     t \in tokens }
    /\ out' = NoOut
    /\ last' = [Last("confirm_save", 0, i.user, 0,
                      Frame("object", "none", "missing", <<>>, FALSE, "int", i.message),
                      NoEvent) EXCEPT !.code = 200]
    /\ UNCHANGED <<status, user, conv, groups, chan, now, nextConv, limit, closing>>
    /\ UNCHANGED store

\* ---------------------------------------------------------------- get_or_create
\* QuerySet.get_or_create is a SELECT and, when it finds no row, an INSERT in
\* a savepoint; other handlers run between the two.  An in-flight call is
\* [op, s, user, message]: op names the call ("read": the get_or_create of a
\* read status), s is the session whose handler made it, 0 for a REST
\* request.

\* ChatConsumer.handle_read_receipt up to the SELECT of get_or_create, which
\* finds no row for (message, self.user)
read_receipt_select(s, f) ==
    /\ status[s] = "joined" /\ ~Busy(s)
    /\ f.json = "object" /\ f.type = "read_receipt" /\ f.mtag = "int"
    /\ \E m \in messages : m.id = f.message_id
    /\ ~(\E r \in read_status : r.message = f.message_id /\ r.user = user[s])
    /\ inflight' = inflight \cup
                     { [op |-> "read", s |-> s, user |-> user[s],
                        message |-> f.message_id] }
    /\ out' = NoOut
    /\ last' = Last("select", s, user[s], conv[s], f, NoEvent)
    /\ UNCHANGED <<status, user, conv, groups, chan, now, nextConv, limit, closing, tokens, password>>
    /\ UNCHANGED store

\* MessageMarkReadView.post up to the SELECTs of its get_or_create calls:
\* last_read_at is saved, the unread messages are fetched, no row is found
mark_read_select(u, c) ==
    /\ MayAct(u)
    /\ conversation_exists(c) /\ check_participant(u, c)
    /\ ~(\E i \in inflight : i.op = "read" /\ i.s = 0 /\ i.user = u)
    /\ unread_messages(u, c) # {}
    /\ participants' = set_last_read_at(u, c)
    /\ inflight' = inflight \cup
                     { [op |-> "read", s |-> 0, user |-> u, message |-> m.id] :
                         m \in unread_messages(u, c) }
    /\ out' = NoOut
    /\ last' = Last("select", 0, u, c, NoFrame, NoEvent)
    /\ UNCHANGED <<status, user, conv, groups, chan, is_online, conversations,
                   messages, nextId, read_status, typing, now, nextConv, limit, closing, tokens, password>>

\* The INSERT of an in-flight get_or_create.  The row is there by now:
\* unique_together raises IntegrityError, get_or_create catches it and returns
\* the row that is there.  The message is gone: the foreign key raises
\* IntegrityError, the second get finds nothing and the error leaves the
\* handler (the consumer dies, the REST request answers 500).
get_or_create_insert(i) ==
    /\ i \in inflight /\ i.op = "read"
    /\ inflight' = inflight \ {i}
    /\ LET gone == ~(\E m \in messages : m.id = i.message)
           there == \E r \in read_status : r.message = i.message /\ r.user = i.user
       IN
        /\ read_status' =
             IF gone \/ there THEN read_status
             ELSE read_status \cup
                    { [message |-> i.message, user |-> i.user, read_at |-> now] }
        /\ status' = IF gone /\ i.s # 0 THEN [status EXCEPT ![i.s] = "crashed"]
                      ELSE status
        /\ last' = [Last("insert", i.s, i.user, 0,
                          Frame("object", "read_receipt", "missing", <<>>, FALSE,
                                "int", i.message), NoEvent)
                      EXCEPT !.code = IF i.s # 0 THEN 0
                                      ELSE IF gone THEN 500 ELSE 200]
    /\ out' = NoOut
    /\ UNCHANGED <<user, conv, groups, chan, is_online, conversations,
                   participants, messages, nextId, typing, now, nextConv, limit, closing, tokens, password>>

\* time passes
Tick ==
    /\ UNCHANGED <<nextConv, inflight, limit, closing, tokens, password>>
    /\ now < MaxTime
    /\ now' = now + 1
    /\ out' = NoOut
    /\ last' = Last("tick", 0, 0, 0, NoFrame, NoEvent)
    /\ UNCHANGED <<status, user, conv, groups, chan>>
    /\ UNCHANGED store

\* ---------------------------------------------------------------- specifications
\* The hub with the inbound frames drawn from F
Hub(F) ==
    \/ \E s \in Sessions, u \in Users \cup {Anon}, c \in Rooms : connect(s, u, c)
    \/ \E s \in Sessions : disconnect(s)
    \/ \E s \in Sessions, f \in F : receive(s, f)
    \/ \E s \in Sessions : Dispatch(s)

\* Presence: connections, malformed frames, login and logout, leaving
NextPresence ==
    \/ Hub(ProtocolErrorFrames)
    \/ \E u \in Users : Login(u)
    \/ \E u \in Users : Logout(u)
    \/ \E u \in Users, c \in Rooms : Leave(u, c)

SpecPresence == Init /\ [][NextPresence]_vars

\* Chat messages
NextChat == Hub(ChatFrames)

SpecChat == Init /\ [][NextChat]_vars

\* Chat messages, with conversations that lose their participants
NextChatLeave ==
    \/ Hub(ChatFrames)
    \/ \E u \in Users, c \in Rooms : Leave(u, c)

SpecChatLeave == Init /\ [][NextChatLeave]_vars

\* Typing indicators over time
NextTyping ==
    \/ Hub(TypingFrames)
    \/ Tick

SpecTyping == Init /\ [][NextTyping]_vars

\* a chat frame with a plain body, and the read receipts that name a message
PlainChatFrames == { f \in ChatFrames : f.ctag = "str" /\ f.content = <<"h">> }

ReceiptFrames == { f \in ReadFrames : f.mtag = "int" /\ f.message_id # 0 }

\* Read receipts and unread counts
NextRead ==
    \/ Hub(PlainChatFrames \cup ReceiptFrames)
    \/ \E u \in Users, c \in Rooms : MarkRead(u, c)
    \/ Tick

SpecRead == Init /\ [][NextRead]_vars

\* Read receipts and bulk mark-read calls racing on the same (message, user)
NextReadRace ==
    \/ \E s \in Sessions, u \in Users, c \in Rooms : ConnectAccepted(s, u, c)
    \/ \E s \in Sessions, f \in ReceiptFrames : receive(s, f)
    \/ \E u \in Users, c \in Rooms : CreateMessage(u, c, "text", <<"h">>)
    \/ \E s \in Sessions, f \in ReceiptFrames : read_receipt_select(s, f)
    \/ \E u \in Users, c \in Rooms : mark_read_select(u, c)
    \/ \E i \in inflight : get_or_create_insert(i)
    \/ \E s \in Sessions : Dispatch(s)
    \/ Tick

SpecReadRace == Init /\ [][NextReadRace]_vars

\* the silences between typing signals: around the threshold and around one day
Elapsed == { TypingTTL - 1, TypingTTL, SecondsPerDay - 1, SecondsPerDay }

\* Typing indicators left alone for seconds or for days
NextExpiry ==
    \/ \E s \in Sessions, u \in Users, c \in Rooms : ConnectAccepted(s, u, c)
    \/ \E s \in Sessions, f \in TypingFrames : receive(s, f)
    \/ \E s \in Sessions : Dispatch(s)
    \/ \E d \in Elapsed : Elapse(d)

SpecExpiry == Init /\ [][NextExpiry]_vars

\* Conversations created and left
NextConversations ==
    \/ \E u \in Users, type \in {"private", "group"}, name \in Names,
          ids \in IdLists, atomic \in BOOLEAN, added \in SUBSET Users :
          CreateConversation(u, type, name, ids, atomic, added)
    \/ \E u \in Users, c \in ConvIds : Leave(u, c)

SpecConversations == Init /\ [][NextConversations]_vars

\* the bodies a REST request posts: none, blank, the stored one, a new one
Bodies == { <<>>, <<"h">>, <<"j">> }

\* message ids a request names: the ones handed out and one that never is
MessageIds == 0..MaxMsgs

\* Messages posted, edited, deleted and read over REST
NextEdit ==
    \/ \E u \in Users, c \in Rooms, kind \in {"text", "system"} :
          CreateMessage(u, c, kind, <<"h">>)
    \/ \E u \in Users, mid \in MessageIds, content \in Bodies :
          UpdateMessage(u, mid, content)
    \/ \E u \in Users, mid \in MessageIds : DeleteMessage(u, mid)
    \/ Tick

SpecEdit == Init /\ [][NextEdit]_vars

\* Messages posted and marked read in bulk over REST
NextBulkRead ==
    \/ \E u \in Users, c \in Rooms : CreateMessage(u, c, "text", <<"h">>)
    \/ \E u \in Users, c \in Rooms : MarkRead(u, c)
    \/ Tick

SpecBulkRead == InitBurst /\ [][NextBulkRead]_vars

\* Connections to every conversation, by participants and by others
NextLifecycle ==
    \/ \E s \in Sessions, u \in Users \cup {Anon}, c \in Convs : connect(s, u, c)
    \/ \E s \in Sessions : disconnect(s)
    \/ \E s \in Sessions, f \in ProtocolErrorFrames : receive(s, f)
    \/ \E s \in Sessions : Dispatch(s)
    \/ \E u \in Users, c \in Convs : Leave(u, c)

SpecLifecycle == Init /\ [][NextLifecycle]_vars

\* Several frames from one session, with other sessions joined
NextOrder ==
    \/ \E s \in Sessions, u \in Users, c \in Rooms : ConnectAccepted(s, u, c)
    \/ \E s \in Sessions : DisconnectUser(s)
    \/ \E s \in Sessions, f \in PlainChatFrames \cup TypingFrames : receive(s, f)
    \/ \E s \in Sessions : Dispatch(s)

SpecOrder == InitBurst /\ [][NextOrder]_vars

\* A chat message on its way through save_message while its sender hangs up
NextHangup ==
    \/ \E s \in Sessions, u \in Users, c \in Rooms : ConnectAccepted(s, u, c)
    \/ \E s \in Sessions, f \in PlainChatFrames : chat_begin(s, f)
    \/ \E i \in inflight : save_message(i)
    \/ \E i \in inflight : chat_group_send(i)
    \/ \E s \in Sessions : Hangup(s)
    \/ \E s \in Sessions : DisconnectUser(s)
    \/ \E s \in Sessions : Dispatch(s)

SpecHangup == Init /\ [][NextHangup]_vars

\* Typing signals of several sessions racing on the same (conversation, user)
NextTypingRace ==
    \/ \E s \in Sessions, u \in Users, c \in Rooms : ConnectAccepted(s, u, c)
    \/ \E s \in Sessions, f \in TypingFrames : receive(s, f)
    \/ \E s \in Sessions, f \in TypingFrames : typing_select(s, f)
    \/ \E i \in inflight : typing_insert(i)
    \/ \E s \in Sessions : Dispatch(s)
    \/ Tick

SpecTypingRace == InitBurst /\ [][NextTypingRace]_vars

\* Messages created over the websocket and over REST as time passes
NextActivity ==
    \/ \E s \in Sessions, u \in Users, c \in Rooms : ConnectAccepted(s, u, c)
    \/ \E s \in Sessions, f \in PlainChatFrames : receive(s, f)
    \/ \E s \in Sessions : Dispatch(s)
    \/ \E u \in Users, c \in Rooms : CreateMessage(u, c, "text", <<"h">>)
    \/ Tick

SpecActivity == Init /\ [][NextActivity]_vars

\* Read receipts from sessions of one conversation for messages of any
NextCrossRead ==
    \/ \E s \in Sessions, u \in Users, c \in Convs : ConnectAccepted(s, u, c)
    \/ \E u \in Users, c \in Convs : CreateMessage(u, c, "text", <<"h">>)
    \/ \E s \in Sessions, f \in ReceiptFrames : receive(s, f)
    \/ \E u \in Users, c \in Convs : Leave(u, c)

SpecCrossRead == Init /\ [][NextCrossRead]_vars

\* Private conversations requested by both sides at once, and left
NextPrivateRace ==
    \/ \E u \in Users, w \in Users, k \in conversations : private_create_select(u, w, k)
    \/ \E i \in inflight : private_create_insert(i)
    \/ \E u \in Users, c \in ConvIds : Leave(u, c)
    \/ Tick

SpecPrivateRace == Init /\ [][NextPrivateRace]_vars

\* Read receipts of every shape, for messages that exist and that do not
NextReceipts ==
    \/ \E s \in Sessions, u \in Users, c \in Rooms : ConnectAccepted(s, u, c)
    \/ \E s \in Sessions, f \in ReadFrames : receive(s, f)
    \/ \E u \in Users, c \in Rooms : CreateMessage(u, c, "text", <<"h">>)
    \/ \E u \in Users, mid \in MessageIds : DeleteMessage(u, mid)
    \/ \E s \in Sessions : Dispatch(s)

SpecReceipts == Init /\ [][NextReceipts]_vars

\* Password resets requested and confirmed, over a day and more
NextReset ==
    \/ \E u \in Users : RequestReset(u)
    \/ \E tok \in TokenIds, pw \in Passwords : confirm_validate(tok, pw)
    \/ \E i \in inflight : confirm_save(i)
    \/ \E d \in Elapsed : Elapse(d)

SpecReset == Init /\ [][NextReset]_vars

\* ---------------------------------------------------------------- properties
\* number of live joined sessions of user u, now and after the step
LiveCount(u) == Cardinality({ s \in Sessions : status[s] = "joined" /\ user[s] = u })

LiveCountNext(u) == Cardinality({ s \in Sessions : status'[s] = "joined" /\ user'[s] = u })

\* the event the step put at the end of session t's channel, if it put one
Enqueued(t) == Len(chan'[t]) = Len(chan[t]) + 1

\* C1: a user's stored online flag is true if and only if the user has at
\* least one live joined session (every state of the model is between
\* handlers, none is mid-flight)
C1_OnlineIffLiveSession ==
    \A u \in Users : is_online[u] <=> LiveCount(u) >= 1

\* C2: a user_status event is broadcast only by a step that takes the user's
\* live-session count from 0 to 1 (online) or from 1 to 0 (offline)
C2_StatusOnlyOnEdge ==
    [][ \A t \in Sessions :
          (Enqueued(t) /\ chan'[t][Len(chan'[t])].type = "user_status") =>
            LET ev == chan'[t][Len(chan'[t])] IN
              \/ ev.status = "online" /\ LiveCount(ev.user_id) = 0
                                      /\ LiveCountNext(ev.user_id) = 1
              \/ ev.status = "offline" /\ LiveCount(ev.user_id) = 1
                                       /\ LiveCountNext(ev.user_id) = 0 ]_vars

\* sessions currently joined to conversation c
JoinedTo(c) == { t \in Sessions : status[t] = "joined" /\ conv[t] = c }

\* the step is receive(s, f) and it returned normally
Received(s, f) ==
    /\ status[s] = "joined"
    /\ last'.op = "receive" /\ last'.s = s /\ last'.frame = f

\* the step is session t's consumer running the handler of an event of this type
Dispatched(t, type) ==
    /\ status[t] = "joined"
    /\ last'.op = "dispatch" /\ last'.s = t /\ last'.ev.type = type

NonBlank(str) == \E i \in 1..Len(str) : str[i] # Space

\* body is str without its leading and trailing spaces
Trimmed(str, body) ==
    /\ body # <<>> /\ Head(body) # Space /\ body[Len(body)] # Space
    /\ \E i \in 0..Len(str) :
         /\ i + Len(body) <= Len(str)
         /\ SubSeq(str, i + 1, i + Len(body)) = body
         /\ \A k \in 1..Len(str) : (k <= i \/ k > i + Len(body)) => str[k] = Space

\* C3: a chat_message frame with non-blank content in an existing conversation
\* persists exactly one Message (sender, conversation, trimmed body) and puts
\* one chat_message event carrying it on the channel of every session joined
\* to the conversation, the sender's included; each consumer that takes the
\* event off its channel writes it to its socket once
C3_ChatMessageFanOut ==
    [][ /\ \A s \in Sessions, f \in ChatFrames :
             ( /\ Received(s, f)
               /\ f.ctag = "str" /\ NonBlank(f.content)
               /\ \E k \in conversations : k.id = conv[s] )
             => \E m \in messages' :
                  /\ m \notin messages
                  /\ messages' = messages \cup {m}
                  /\ m.sender = user[s] /\ m.conversation = conv[s]
                  /\ Trimmed(f.content, m.content)
                  /\ s \in JoinedTo(conv[s])
                  /\ \A t \in JoinedTo(conv[s]) :
                       /\ Enqueued(t)
                       /\ SubSeq(chan'[t], 1, Len(chan[t])) = chan[t]
                       /\ LET ev == chan'[t][Len(chan'[t])] IN
                            /\ ev.type = "chat_message_handler"
                            /\ ev.origin = s
                            /\ ev.message.id = m.id
                            /\ ev.message.content = m.content
                            /\ ev.message.sender = user[s]
                            /\ ev.message.conversation = conv[s]
        /\ \A t \in Sessions :
             Dispatched(t, "chat_message_handler")
             => /\ out'[t] = << OutFrame("chat_message", "", 0, "", FALSE,
                                         Head(chan[t]).message) >>
                /\ chan'[t] = Tail(chan[t]) ]_vars

\* C3 witness: the sender's own consumer has just written its own message to
\* its socket while another session is joined to the same conversation
C3_SenderGotOwnMessage ==
    /\ last.op = "dispatch" /\ last.ev.type = "chat_message_handler"
    /\ last.ev.origin = last.s
    /\ out[last.s] # <<>>
    /\ \E m \in messages : m.id = last.ev.message.id /\ m.sender = user[last.s]
    /\ \E t \in JoinedTo(last.c) : t # last.s

\* a typing frame puts one typing event on the channel of every session
\* joined to the conversation
TypingEnqueued ==
    \A s \in Sessions, f \in TypingFrames :
      Received(s, f)
      => \A t \in JoinedTo(conv[s]) :
           /\ Enqueued(t)
           /\ SubSeq(chan'[t], 1, Len(chan[t])) = chan[t]
           /\ chan'[t][Len(chan'[t])] =
                Event("typing_indicator_handler", user[s], "", f.is_typing, NoMessage, s)

TypingFrameOf(ev) == OutFrame("typing", "", ev.user_id, "", ev.is_typing, NoMessage)

C5_ReadReceiptsClearUnread ==
    \A p \in participants :
      ( /\ last.op = "receive" /\ last.frame.type = "read_receipt"
        /\ last.u = p.user /\ last.c = p.conversation
        /\ \E m \in messages : m.conversation = p.conversation /\ m.sender # p.user
        /\ \A m \in messages :
             (m.conversation = p.conversation /\ m.sender # p.user)
             => \E r \in read_status : r.message = m.id /\ r.user = p.user )
      => get_unread_count(p) = 0

\* C6: the two handlers of a refused connection (connect, then the disconnect
\* callback) change no group, no channel and no stored row, and write nothing
C6_RefusedConnectionNoSideEffects ==
    [][ \A s \in Sessions :
          ( \/ status[s] = "idle" /\ status'[s] = "rejected"
            \/ status[s] = "rejected" /\ status'[s] = "closed" )
          => /\ UNCHANGED <<groups, chan>>
             /\ UNCHANGED store
             /\ out' = NoOut ]_vars

\* C7: the disconnect of a joined session takes it out of its group and leaves
\* its (conversation, user) typing entry inactive; from then on nothing is put
\* on its channel, it is in no group, and nothing is written to its socket
\* (the offline event of its own disconnect included)
C7_ClosedSessionGetsNothing ==
    [][ \A s \in Sessions :
          /\ (status[s] = "joined" /\ status'[s] = "closed")
             => /\ \A c \in Convs : s \notin groups'[c]
                /\ ~IsActive(conv[s], user[s])'
                /\ out'[s] = <<>>
          /\ status[s] = "closed"
             => /\ status'[s] = "closed"
                /\ \A c \in Convs : s \notin groups'[c]
                /\ chan'[s] = chan[s]
                /\ out'[s] = <<>> ]_vars

\* C7 witness: a joined session whose user had a typing entry has just
\* disconnected while a session of another user stays joined
C7_TypingSessionClosed ==
    /\ last.op = "disconnect" /\ last.cleared
    /\ status[last.s] = "closed"
    /\ \E t \in JoinedTo(last.c) : user[t] # last.u

\* C8: a session whose connection has ended, for whatever reason, is in no
\* group, and the step that ended it left its user no typing entry in the
\* conversation
C8_EndedSessionCleanedUp ==
    \A s \in Sessions :
      status[s] \in {"closed", "crashed"} /\ user[s] # Anon
      => /\ \A c \in Convs : s \notin groups[c]
         /\ (last.s = s /\ last.op \in {"receive", "disconnect"})
            => ~(\E t \in typing : t.conversation = conv[s] /\ t.user = user[s])

\* C9: after a frame of the wrong shape the session is still joined and was
\* sent an error frame
C9_ProtocolErrorNonFatal ==
    (last.op = "receive" /\ last.frame \in ProtocolErrorFrames)
    => /\ status[last.s] = "joined"
       /\ Len(out[last.s]) = 1 /\ out[last.s][1].type = "error"

\* C10: a chat message that could not be persisted because its conversation
\* is gone is answered with an error frame to the sender
C10_PersistenceFailureReported ==
    ( /\ last.op = "receive" /\ last.frame.type = "chat_message"
      /\ last.frame.ctag = "str" /\ NonBlank(last.frame.content)
      /\ status[last.s] = "joined"
      /\ ~(\E k \in conversations : k.id = last.c) )
    => /\ Len(out[last.s]) = 1 /\ out[last.s][1].type = "error"
       /\ \A t \in Sessions : t # last.s => out[t] = <<>>

\* the body handle_chat_message works with is blank: content is missing,
\* empty or only whitespace
BlankFrame(f) ==
    /\ f.type = "chat_message" /\ f.json = "object"
    /\ f.ctag = "missing" \/ (f.ctag = "str" /\ ~NonBlank(f.content))

\* C11: a chat_message frame whose content is missing, empty or only
\* whitespace is dropped silently: no Message is stored, no conversation's
\* updated_at moves, no channel gets an event, nothing is written to any
\* socket (no error frame to the sender either) and the session stays joined
C11_BlankChatDropped ==
    [][ \A s \in Sessions, f \in ChatFrames :
          (Received(s, f) /\ BlankFrame(f))
          => /\ messages' = messages /\ nextId' = nextId
             /\ conversations' = conversations
             /\ chan' = chan
             /\ out' = NoOut
             /\ status' = status
             /\ UNCHANGED store ]_vars

\* C11 witness: a joined session has just sent a whitespace-only body while
\* another session is joined to the conversation
C11_WhitespaceBodySent ==
    /\ last.op = "receive" /\ last.frame.type = "chat_message"
    /\ last.frame.ctag = "str" /\ last.frame.content = <<Space>>
    /\ status[last.s] = "joined"
    /\ \E t \in JoinedTo(last.c) : t # last.s

\* the step is a read receipt or a bulk mark-read, whole or in part
MarkReadStep ==
    \/ last'.op \in {"select", "insert", "mark_read"}
    \/ last'.op = "receive" /\ last'.frame \in ReceiptFrames

\* C12: markRead is idempotent, for calls made one after the other or at the
\* same time from several sessions: a (message, user) pair never has more
\* than one ReadStatus, a stored ReadStatus is never changed or removed (its
\* read_at stays), and no read receipt or bulk mark-read ends in an error
C12_MarkReadIdempotent ==
    /\ [](\A r1 \in read_status, r2 \in read_status :
             (r1.message = r2.message /\ r1.user = r2.user) => r1 = r2)
    /\ [][ /\ \A r \in read_status : r \in read_status'
           /\ MarkReadStep => (status' = status /\ last'.code # 500) ]_vars

\* C12 witness: a session's get_or_create whose SELECT had found no row has
\* just run its INSERT after another call stored the ReadStatus of the same
\* pair at an earlier time, while the reader holds a second joined session
C12_LostRaceKeptFirstRow ==
    /\ last.op = "insert" /\ last.s # 0
    /\ \E t \in Sessions \ {last.s} : status[t] = "joined" /\ user[t] = last.u
    /\ \E r \in read_status :
         /\ r.message = last.frame.message_id /\ r.user = last.u
         /\ r.read_at < now

\* C13: isActive(conversation, user) is true exactly when an entry exists and
\* less than 5 seconds have passed since its last typing signal, whatever the
\* elapsed time (more than one day included)
C13_TypingExpiry ==
    \A c \in Convs, u \in Users :
      IsActive(c, u) <=> \E t \in typing : /\ t.conversation = c /\ t.user = u
                                           /\ now - t.started_at < TypingTTL

\* the step put a "stopped typing" event of user u on the channel of session t
StoppedTypingSent(t, u) ==
    \E k \in (Len(chan[t]) + 1)..Len(chan'[t]) :
      /\ chan'[t][k].type = "typing_indicator_handler"
      /\ chan'[t][k].user_id = u /\ ~chan'[t][k].is_typing

\* C14: the disconnect of a joined session whose user has a typing entry in
\* the conversation clears the entry and sends a typing event with is_typing
\* false for that user to every other session joined to the conversation; so
\* does every typing frame with is_typing false
C14_ClearBroadcastsStopped ==
    [][ \A s \in Sessions :
          /\ ( /\ status[s] = "joined" /\ status'[s] = "closed"
               /\ \E e \in typing : e.conversation = conv[s] /\ e.user = user[s] )
             => /\ ~(\E e \in typing' : e.conversation = conv[s] /\ e.user = user[s])
                /\ \A t \in JoinedTo(conv[s]) \ {s} : StoppedTypingSent(t, user[s])
          /\ \A f \in TypingFrames :
               (Received(s, f) /\ ~f.is_typing)
               => /\ ~(\E e \in typing' : e.conversation = conv[s] /\ e.user = user[s])
                  /\ \A t \in JoinedTo(conv[s]) \ {s} : StoppedTypingSent(t, user[s])
      ]_vars

\* number of participants of conversation c
ParticipantCount(c) == Cardinality({ p \in participants : p.conversation = c })

\* C15: every stored private conversation has exactly 2 participants, every
\* stored group conversation has at least 2 and a non-empty name
C15_ConversationShape ==
    \A k \in conversations :
      /\ k.type = "private" => ParticipantCount(k.id) = 2
      /\ k.type = "group" => (ParticipantCount(k.id) >= 2 /\ k.name # "")

\* C16: after a successful update of a message by its sender with non-empty
\* content, the stored message has the new content as its body, is_edited
\* true and edited_at set
C16_UpdateStoresNewBody ==
    (last.op = "update" /\ last.code = 200)
    => \E m \in messages :
         /\ m.id = last.frame.message_id /\ m.sender = last.u
         /\ m.content = last.frame.content
         /\ m.is_edited /\ m.edited_at # Null

\* C17: an update or delete request for a message by a user who is not its
\* sender is answered 404 and changes no stored row, no group and no channel;
\* and no step changes the conversation, sender, kind or creation time of a
\* stored message
C17_OnlySenderChangesMessage ==
    [][ /\ \A m \in messages :
             ( /\ last'.op \in {"update", "delete"}
               /\ last'.frame.message_id = m.id /\ last'.u # m.sender )
             => /\ last'.code = 404
                /\ m \in messages'
                /\ UNCHANGED store
                /\ UNCHANGED <<groups, chan, status>>
        /\ \A m \in messages, n \in messages' :
             m.id = n.id
             => /\ n.conversation = m.conversation /\ n.sender = m.sender
                /\ n.type = m.type /\ n.created_at = m.created_at ]_vars

\* C17 witness: a user who is not the sender of a stored message has just
\* asked to delete it and was answered 404
C17_StrangerRefused ==
    /\ last.op = "delete" /\ last.code = 404
    /\ \E m \in messages : m.id = last.frame.message_id /\ m.sender # last.u

\* the ReadStatus rows of user u for message id mid
ReadRows(rs, mid, u) == { r \in rs : r.message = mid /\ r.user = u }

\* the messages of p's conversation that p's user did not send and that were
\* created after p's last_read_at (all of them when it is unset)
UnreadOf(p) ==
    { m \in messages : /\ m.conversation = p.conversation /\ m.sender # p.user
                        /\ (p.last_read_at = Null \/ m.created_at > p.last_read_at) }

\* C18: a bulk mark-read by participant U on conversation C leaves exactly one
\* ReadStatus of U for every message of C that U did not send, adds none for
\* the messages U sent, sets U's last_read_at to the time of the call and
\* leaves U's unread count on C at 0; and the unread count always is the number
\* of messages of C not sent by U and created after last_read_at
C18_BulkMarkRead ==
    /\ [](\A p \in participants : get_unread_count(p) = Cardinality(UnreadOf(p)))
    /\ [][ \A u \in Users, c \in Convs :
             (last'.op = "mark_read" /\ last'.u = u /\ last'.c = c)
             => /\ \A m \in messages' :
                     m.conversation = c
                     => IF m.sender # u
                        THEN Cardinality(ReadRows(read_status', m.id, u)) = 1
                        ELSE ReadRows(read_status', m.id, u) = ReadRows(read_status, m.id, u)
                /\ \E p \in participants' :
                     /\ p.conversation = c /\ p.user = u
                     /\ p.last_read_at = now
                     /\ Cardinality({ m \in messages' :
                            /\ m.conversation = c /\ m.sender # u
                            /\ m.created_at > p.last_read_at }) = 0
                /\ \A p \in participants' :
                     (p.conversation = c /\ p.user = u) => p.last_read_at = now ]_vars

\* C18 witness: a bulk mark-read has just run on a conversation that holds a
\* message of the caller and an older message of another user, which the call
\* has marked read
C18_BulkReadMixedConversation ==
    /\ last.op = "mark_read"
    /\ \E m \in messages : m.conversation = last.c /\ m.sender = last.u
    /\ \E m \in messages, r \in read_status :
         /\ m.conversation = last.c /\ m.sender # last.u
         /\ r.message = m.id /\ r.user = last.u /\ r.read_at = now
         /\ m.created_at < now

\* the moves of a session: not yet connected ("idle"), Joined ("joined"), and
\* Closed: refused by connect ("rejected", then "closed" once the disconnect
\* callback has run), closed after being joined, or ended by an exception
\* ("crashed")
LifecycleMoves ==
    { <<"idle", "joined">>, <<"idle", "rejected">>, <<"rejected", "closed">>,
      <<"joined", "closed">>, <<"joined", "crashed">> }

\* the groups session s is a member of
GroupsOf(s) == { c \in Convs : s \in groups[c] }

\* C19: a session only moves forward through its lifecycle and never leaves
\* the closed states; it enters a group only in its connect step, only the
\* group of the conversation it connected to, and only if its user is
\* authenticated and is a participant of that conversation at that time; a
\* failed check closes it; it is never in more than one group, and a joined
\* session is in the group of its conversation
C19_SessionLifecycle ==
    /\ [](\A s \in Sessions :
             /\ Cardinality(GroupsOf(s)) <= 1
             /\ GroupsOf(s) # {} => (GroupsOf(s) = {conv[s]} /\ user[s] # Anon
                                      /\ status[s] \in {"joined", "crashed"})
             /\ status[s] = "joined" => s \in groups[conv[s]])
    /\ [][ \A s \in Sessions :
             /\ status'[s] # status[s] => <<status[s], status'[s]>> \in LifecycleMoves
             /\ status[s] \in {"rejected", "closed", "crashed"}
                  => status'[s] \in {"closed", "crashed"} \cup {status[s]}
             /\ status[s] \in {"closed", "crashed"} => status'[s] = status[s]
             /\ status[s] # "idle" => (user'[s] = user[s] /\ conv'[s] = conv[s])
             /\ \A c \in Convs :
                  (s \in groups'[c] /\ s \notin groups[c])
                  => /\ status[s] = "idle" /\ status'[s] = "joined"
                     /\ conv'[s] = c /\ user'[s] # Anon
                     /\ \E p \in participants :
                          p.conversation = c /\ p.user = user'[s]
             /\ (status[s] = "idle" /\ status'[s] = "rejected")
                  => \/ user'[s] = Anon
                     \/ ~(\E p \in participants :
                            p.conversation = conv'[s] /\ p.user = user'[s]) ]_vars

\* C19 witness: an authenticated user who is not a participant of the
\* conversation has just been refused while a session is joined to the other
\* conversation, of which that user is a participant
C19_NonParticipantRefused ==
    /\ last.op = "connect" /\ status[last.s] = "rejected" /\ last.u # Anon
    /\ \E t \in Sessions :
         /\ status[t] = "joined" /\ conv[t] # last.c
         /\ \E p \in participants : p.conversation = conv[t] /\ p.user = last.u

\* the frame a consumer writes for an event it takes off its channel
Written(t, ev) ==
    CASE ev.type = "chat_message_handler" ->
           << OutFrame("chat_message", "", 0, "", FALSE, ev.message) >>
      [] ev.type = "typing_indicator_handler" ->
           IF ev.user_id # user[t] THEN << TypingFrameOf(ev) >> ELSE <<>>
      [] OTHER ->
           << OutFrame("user_status", "", ev.user_id, ev.status, FALSE, NoMessage) >>

\* C20: the events of one session reach every other session in the order in
\* which its frames were accepted: a step leaves the channel of a session that
\* stays joined alone, or puts one event at its end, or takes the first event
\* off it and writes that event's frame; of two chat events of the same
\* origin on a channel the earlier one carries the earlier message; and
\* messages are stored in the order of their ids
C20_PerSessionOrder ==
    /\ [](\A t \in Sessions : \A i \in DOMAIN chan[t], j \in DOMAIN chan[t] :
             ( /\ i < j
               /\ chan[t][i].type = "chat_message_handler"
               /\ chan[t][j].type = "chat_message_handler"
               /\ chan[t][i].origin = chan[t][j].origin )
             => chan[t][i].message.id < chan[t][j].message.id)
    /\ [](\A m \in messages, n \in messages :
             m.id < n.id => m.created_at <= n.created_at)
    /\ [][ /\ \A t \in Sessions :
               (status[t] = "joined" /\ status'[t] = "joined")
               => \/ chan'[t] = chan[t]
                  \/ /\ Len(chan'[t]) = Len(chan[t]) + 1
                     /\ SubSeq(chan'[t], 1, Len(chan[t])) = chan[t]
                     /\ last'.op \in {"receive", "connect", "disconnect"}
                     /\ chan'[t][Len(chan'[t])].origin = last'.s
                  \/ /\ chan[t] # <<>> /\ chan'[t] = Tail(chan[t])
                     /\ last'.op = "dispatch" /\ last'.s = t
                     /\ out'[t] = Written(t, Head(chan[t]))
           /\ \A m \in messages' \ messages, n \in messages :
                n.id < m.id /\ n.created_at <= m.created_at ]_vars

\* C20 witness: the channel of a joined session holds two chat events of one
\* other session, the earlier message first
C20_TwoEventsQueuedInOrder ==
    \E t \in Sessions :
      /\ status[t] = "joined" /\ Len(chan[t]) >= 2
      /\ chan[t][1].type = "chat_message_handler"
      /\ chan[t][2].type = "chat_message_handler"
      /\ chan[t][1].origin = chan[t][2].origin /\ chan[t][1].origin # t
      /\ chan[t][1].message.id < chan[t][2].message.id

\* C21: a chat message whose save_message call started before its sender's
\* socket closed is still stored, and its chat_message event is still put on
\* the channel of every other session joined to the conversation; a session
\* whose socket has closed is sent nothing
C21_WriteOutlivesHangup ==
    /\ [](\A s \in closing : out[s] = <<>>)
    /\ [][ /\ last'.op = "save" =>
               \E m \in messages' : /\ m \notin messages
                                     /\ m.id = last'.frame.message_id
                                     /\ m.sender = last'.u /\ m.conversation = last'.c
                                     /\ m.content = last'.frame.content
           /\ last'.op = "group_send" =>
               /\ \E m \in messages' : m.id = last'.frame.message_id
               /\ \A t \in JoinedTo(last'.c) \ {last'.s} :
                    /\ Enqueued(t)
                    /\ chan'[t][Len(chan'[t])].type = "chat_message_handler"
                    /\ chan'[t][Len(chan'[t])].message.id = last'.frame.message_id ]_vars

\* C21 witness: the handler of a session whose socket closed while its message
\* was being saved has just broadcast the message, and another joined session
\* has it on its channel
C21_BroadcastAfterHangup ==
    /\ last.op = "group_send" /\ last.s \in closing /\ status[last.s] = "joined"
    /\ \E t \in JoinedTo(last.c) \ {last.s} :
         /\ t \notin closing /\ chan[t] # <<>>
         /\ chan[t][Len(chan[t])].type = "chat_message_handler"
         /\ chan[t][Len(chan[t])].message.id = last.frame.message_id

\* the step is a typing signal (is_typing true) that ran to its end
SignalDone ==
    /\ \/ last'.op \in {"typing_insert", "typing_update"}
       \/ last'.op = "receive" /\ last'.frame.type = "typing" /\ last'.frame.is_typing
    /\ status'[last'.s] = "joined"

\* C23: after any interleaving of typing signals, two sessions of one user in
\* one conversation included, there is at most one TypingEntry per
\* (conversation, user), and a signal leaves that entry with the time of the
\* signal as its timestamp
C23_TypingUpsert ==
    /\ [](\A t1 \in typing, t2 \in typing :
             (t1.conversation = t2.conversation /\ t1.user = t2.user) => t1 = t2)
    /\ [][ SignalDone =>
             \E t \in typing' : /\ t.conversation = last'.c /\ t.user = last'.u
                                 /\ t.started_at = now' ]_vars

\* C23 witness: a signal whose SELECT had found no entry has just ended by
\* re-stamping the entry another session of the same user stored meanwhile,
\* at a later time than that session's signal
C23_RacingSignalRestamped ==
    /\ last.op = "typing_update" /\ now > 0
    /\ \E t \in Sessions \ {last.s} : status[t] = "joined" /\ user[t] = last.u
    /\ \E t \in typing : /\ t.conversation = last.c /\ t.user = last.u
                          /\ t.started_at = now

\* C24: every stored message, created over the live connection or through
\* the REST create endpoint, has moved its conversation's updated_at to a time
\* not earlier than its created_at, and has done so by the step that stores
\* it, before any chat_message event carrying it is on a channel
C24_MessageTouchesConversation ==
    /\ [](\A m \in messages : \E k \in conversations :
             k.id = m.conversation /\ k.updated_at >= m.created_at)
    /\ [][ \A m \in messages' \ messages : \E k \in conversations' :
             k.id = m.conversation /\ k.updated_at = now' /\ m.created_at = now' ]_vars

\* C24 witness: a message has just been stored after the clock moved, over the
\* websocket with its event queued, and its conversation carries the new time
C24_TouchedAfterTick ==
    /\ last.op = "receive" /\ now > 0
    /\ \E m \in messages :
         /\ m.created_at = now /\ m.conversation = last.c /\ m.sender = last.u
         /\ \E k \in conversations : k.id = m.conversation /\ k.updated_at = now
         /\ \E t \in Sessions : \E j \in DOMAIN chan[t] : chan[t][j].message.id = m.id

\* C25: an event of conversation C (chat_message, typing, user_status) is
\* written only to the socket of a session whose user is a participant of C at
\* that moment; after a user leaves C through the leave endpoint, the user's
\* open session receives no further event of C
C25_DeliveryToParticipantsOnly ==
    (last.op = "dispatch" /\ out[last.s] # <<>>) =>
      \E p \in participants : p.conversation = last.c /\ p.user = last.u

\* C26: a message is stored only for a sender who is a participant of its
\* conversation at that moment, over the live connection as over REST; a user
\* who has left cannot add messages through a session opened earlier
C26_SenderIsParticipant ==
    [][ \A m \in messages' \ messages :
          \E p \in participants : p.conversation = m.conversation /\ p.user = m.sender ]_vars

\* C27: a read_receipt frame from a session joined to conversation C creates
\* a ReadStatus only for a message of C; for a message of another conversation
\* (one the user is no participant of included) none is created
C27_ReceiptStaysInConversation ==
    [][ (last'.op = "receive" /\ last'.frame.type = "read_receipt") =>
          \A r \in read_status' \ read_status :
            \E m \in messages : m.id = r.message /\ m.conversation = last'.c ]_vars

\* the private conversations both users take part in, after the step
SharedPrivateNext(u, w) ==
    { k \in conversations' :
        /\ k.type = "private"
        /\ \E p \in participants' : p.conversation = k.id /\ p.user = u
        /\ \E p \in participants' : p.conversation = k.id /\ p.user = w }

\* C28: after any interleaving of create requests there is at most one
\* private conversation per pair of distinct users; a private create between
\* two users who share one returns it and creates no Conversation or
\* Participant row, and the conversation a private create returns always has
\* the named other user as a participant
C28_OnePrivatePerPair ==
    /\ [](\A u \in Users : \A w \in Users \ {u} :
             \A k1 \in conversations, k2 \in conversations :
               ( /\ k1.type = "private" /\ k2.type = "private"
                 /\ \A x \in {u, w}, k \in {k1, k2} :
                      \E p \in participants : p.conversation = k.id /\ p.user = x )
               => k1 = k2)
    /\ [][ last'.op = "create_private" =>
             /\ \E k \in SharedPrivateNext(last'.u, last'.frame.message_id) :
                  k.id = last'.c
             /\ shared_private(last'.u, last'.frame.message_id) # {} =>
                  /\ conversations' = conversations /\ participants' = participants
                  /\ \E k \in shared_private(last'.u, last'.frame.message_id) :
                       k.id = last'.c ]_vars

\* the read_receipt frame names no message to mark: message_id is missing or
\* null, is zero, or is the id of no stored message
NamesNoMessage(f) ==
    /\ f.type = "read_receipt"
    /\ \/ f.mtag = "missing"
       \/ f.mtag = "int" /\ f.message_id = 0
       \/ f.mtag = "int" /\ ~(\E m \in messages : m.id = f.message_id)

C30_TokenSingleUse ==
    [][ /\ last'.op = "confirm_save" =>
             \E t \in tokens : t.token = last'.frame.message_id /\ ~t.is_used
        /\ ( /\ last'.op = "confirm_validate"
             /\ \E t \in tokens : /\ t.token = last'.frame.message_id
                                   /\ (t.is_used \/ now >= t.expires_at) )
             => (last'.code = 400 /\ password' = password /\ tokens' = tokens
                 /\ inflight' = inflight)
        /\ \A t \in tokens : t.is_used =>
             \E t2 \in tokens' : t2.token = t.token /\ t2.is_used ]_vars

====
